---------------------------- MODULE Spec2Model ----------------------------
(***************************************************************************)
(* jsonfs: a JSON document projected onto a FUSE filesystem.               *)
(*                                                                         *)
(* The repository holds two implementations of fuser::Filesystem:          *)
(*   - the path-based one (src/main.rs, and its copy src/jsonfs.rs which   *)
(*     adds mknod): inode ids are counters bound to "/"-joined paths that  *)
(*     are re-walked on every access;                                      *)
(*   - the pointer-based one (src/pinjsonfs.rs): the inode id of a node is *)
(*     the memory address of its serde_json::Value.                        *)
(* Spec is the path-based filesystem, PinSpec the pointer-based one,       *)
(* JsonFsSpec a mount of either.                                           *)
(***************************************************************************)
EXTENDS Naturals, Integers, Sequences, FiniteSets, TLC

VARIABLES
    variant,     \* "path" (main.rs / jsonfs.rs) or "pin" (pinjsonfs.rs)
    json,        \* JsonFS.json: the document tree
    mem,         \* pointer-based: <<path, address>> of every node of the tree
    inodes,      \* path-based JsonFS.inodes: ino -> path
    last_inode,  \* path-based JsonFS.last_inode
    ino2inode,   \* pointer-based JsonFS.ino2inode: ino -> Inode.value (an address)
    file,        \* the document in the backing file
    alive,       \* FALSE once a handler has panicked (the mount is gone)
    steps,       \* pointer-based: the state-changing requests served so far
    last         \* the last request that changed the state, and its reply
                 \* (pointer-based: an error reply leaves it as it was)

vars == <<variant, json, mem, inodes, last_inode, ino2inode, file, alive, steps, last>>

(***************************************************************************)
(* Bounds of the model.                                                    *)
(***************************************************************************)
MaxInode == 4      \* the path-based registry stops allocating at this id
MaxSteps == 2      \* the pointer-based filesystem serves this many state-changing requests
NumBufs == 3       \* heap blocks the allocator can hand out (pointer-based)

FUSE_ROOT_ID == 1

\* the names of the path-based requests
Names == {"a", "b", "0"}
\* str::cmp order of the names (BTreeMap iteration order of serde_json::Map)
NameOrder == <<"0", "1", "2", "3", "4", "5", "6", "7", "8", "9", "a", "attachments", "b">>
\* the contents written: the path-based write stores any content as a String,
\* the pointer-based write tells a number from other text
PathData == {<<"h">>}
Data == {<<"h">>, <<"0", "7">>}
Offsets == {0, 2}
\* the offsets of the pointer-based writes: inside, at the end of and beyond
\* the one-byte strings of the documents
WriteOffsets == {0, 1, 2}
Sizes == {8}

(***************************************************************************)
(* serde_json::Value                                                       *)
(***************************************************************************)
None == [k |-> "none"]
Panic == [k |-> "panic"]
VNull == [k |-> "null"]
VBool(b) == [k |-> "bool", b |-> b]
VNum(n) == [k |-> "num", n |-> n]
VStr(s) == [k |-> "str", s |-> s]
\* m: key -> Value; buf: the heap block of the map's node (0: none allocated)
VObj(m, buf) == [k |-> "obj", m |-> m, buf |-> buf]
\* v: the elements; buf: the heap block of the Vec's buffer (0: none); cap: Vec capacity
VArr(v, buf, cap) == [k |-> "arr", v |-> v, buf |-> buf, cap |-> cap]

EmptyMap == [x \in {} |-> None]

\* str::parse::<usize>() of a name; -1 stands for Err (the names of the
\* model have one character)
ParseUsize(name) ==
    CASE name = "0" -> 0 [] name = "1" -> 1 [] name = "2" -> 2 [] name = "3" -> 3
      [] name = "4" -> 4 [] name = "5" -> 5 [] name = "6" -> 6 [] name = "7" -> 7
      [] name = "8" -> 8 [] name = "9" -> 9 [] OTHER -> -1

\* usize::to_string() as a name (the Arrays of the model stay below 10 elements)
IndexName(i) ==
    CASE i = 0 -> "0" [] i = 1 -> "1" [] i = 2 -> "2" [] i = 3 -> "3"
      [] i = 4 -> "4" [] i = 5 -> "5" [] i = 6 -> "6" [] i = 7 -> "7"
      [] i = 8 -> "8" [] OTHER -> "9"

DigitVal(c) ==
    CASE c = "0" -> 0 [] c = "1" -> 1 [] c = "2" -> 2 [] c = "3" -> 3
      [] c = "4" -> 4 [] c = "5" -> 5 [] c = "6" -> 6 [] c = "7" -> 7
      [] c = "8" -> 8 [] c = "9" -> 9 [] OTHER -> -1

RECURSIVE DigitsValue(_, _)
DigitsValue(s, acc) ==
    IF s = <<>> THEN acc ELSE DigitsValue(Tail(s), acc * 10 + DigitVal(Head(s)))

\* str::parse::<u64>() of a content; -1 stands for Err (the contents of the
\* model stay far below u64::MAX)
ParseU64(s) ==
    LET d == IF s # <<>> /\ Head(s) = "+" THEN Tail(s) ELSE s
    IN  IF d # <<>> /\ \A i \in 1..Len(d) : DigitVal(d[i]) >= 0
        THEN DigitsValue(d, 0)
        ELSE -1

\* the keys of a map in iteration order
SortedKeys(m) == SelectSeq(NameOrder, LAMBDA n : n \in DOMAIN m)

\* the position (from 0) of key in the iteration order of the map's keys keys
KeySlot(keys, key) ==
    Cardinality({n \in keys : \E i, j \in 1..Len(NameOrder) :
                    /\ NameOrder[i] = n /\ NameOrder[j] = key /\ i < j})

FileType(v) == IF v.k \in {"obj", "arr"} THEN "Directory" ELSE "RegularFile"

\* one step of a walk: the child of value called name (lookup_children, and
\* the loop body of get_json_at_path)
lookup_children(value, name) ==
    CASE value.k = "obj" ->
            IF name \in DOMAIN value.m THEN value.m[name] ELSE None
      [] value.k = "arr" ->
            LET i == ParseUsize(name)
            IN  IF i >= 0 /\ i < Len(value.v) THEN value.v[i + 1] ELSE None
      [] OTHER -> None

\* A path "/a/0" is the sequence of its components <<"a", "0">>: a FUSE name
\* is not empty and holds no '/', so split('/').filter(non-empty) gives back
\* exactly the names format!("{}/{}") joined, and two path strings are equal
\* exactly when their component sequences are.
RECURSIVE get_json_at_path(_, _)
get_json_at_path(value, path) ==
    IF path = <<>> THEN value
    ELSE LET c == lookup_children(value, Head(path))
         IN  IF c.k = "none" THEN None ELSE get_json_at_path(c, Tail(path))

\* the walk of write_json_at_path and the final assignment; Panic when an
\* unwrap() on the way fails; the walk stops (break) at a scalar, which is
\* then the node assigned to
RECURSIVE write_walk(_, _, _)
write_walk(value, path, new) ==
    IF path = <<>> THEN new
    ELSE CASE value.k = "obj" ->
                 IF Head(path) \in DOMAIN value.m
                 THEN LET r == write_walk(value.m[Head(path)], Tail(path), new)
                      IN  IF r.k = "panic" THEN Panic
                          ELSE [value EXCEPT !.m[Head(path)] = r]
                 ELSE Panic
           [] value.k = "arr" ->
                 LET i == ParseUsize(Head(path))
                 IN  IF i >= 0 /\ i < Len(value.v)
                     THEN LET r == write_walk(value.v[i + 1], Tail(path), new)
                          IN  IF r.k = "panic" THEN Panic
                              ELSE [value EXCEPT !.v[i + 1] = r]
                     ELSE Panic
           [] OTHER -> new

write_json_at_path(value, path, content) == write_walk(value, path, VStr(content))

\* the document a flush writes: the tree without its memory layout
RECURSIVE Document(_)
Document(v) ==
    CASE v.k = "obj" -> VObj([n \in DOMAIN v.m |-> Document(v.m[n])], 0)
      [] v.k = "arr" -> VArr([i \in 1..Len(v.v) |-> Document(v.v[i])], 0, 0)
      [] OTHER -> v

(***************************************************************************)
(* Requests and replies                                                    *)
(***************************************************************************)
NoEntries == <<>>
Reply(op, ino, name, res, rino, kind, entries) ==
    [op |-> op, ino |-> ino, name |-> name, res |-> res, rino |-> rino,
     kind |-> kind, entries |-> entries, data |-> <<>>]

\* a handler panicked: the process is gone and the request gets no reply
Crash(op) == Reply(op, 0, "", "panic", 0, "", NoEntries)

(***************************************************************************)
(* The path-based filesystem: src/main.rs, src/jsonfs.rs                   *)
(***************************************************************************)
\* the document mounted: {"a": "x", "b": ["p"]}
InitDoc ==
    VObj([n \in {"a", "b"} |->
            IF n = "a" THEN VStr(<<"x">>) ELSE VArr(<<VStr(<<"p">>)>>, 0, 0)], 0)

\* JsonFS::new
Init ==
    /\ variant = "path"
    /\ json = InitDoc
    /\ mem = {}
    /\ inodes = [i \in {FUSE_ROOT_ID} |-> <<>>]
    /\ last_inode = FUSE_ROOT_ID
    /\ ino2inode = [i \in {} |-> 0]
    /\ file = Document(InitDoc)
    /\ alive = TRUE
    /\ steps = 0
    /\ last = Reply("mount", 0, "", "ok", 0, "", NoEntries)

\* allocate_inode with the insert written ahead of the increment: the path
\* is bound to the id handed out last
allocate_inode_stale(reg, lastIno, path) ==
    [i \in DOMAIN reg \cup {lastIno} |-> IF i = lastIno THEN path ELSE reg[i]]

\* JsonFS::allocate_inode: the registry after binding the next id to path
allocate_inode(reg, lastIno, path) ==
    [i \in DOMAIN reg \cup {lastIno + 1} |-> IF i = lastIno + 1 THEN path ELSE reg[i]]

\* the inode ids a request may carry: the bound ones and one that is not
PathInos == DOMAIN inodes \cup {last_inode + 1}

\* lookup with the inode allocated ahead of the test of the path: a name
\* that does not resolve is answered ENOENT after an id was bound to it
LookupMintsFirst(parent, name) ==
    /\ alive /\ variant = "path"
    /\ IF parent \notin DOMAIN inodes
       THEN /\ alive' = FALSE
            /\ last' = Crash("lookup")
            /\ UNCHANGED <<inodes, last_inode>>
       ELSE LET path == inodes[parent] \o <<name>>
                value == get_json_at_path(json, path)
            IN  /\ last_inode < MaxInode
                /\ inodes' = allocate_inode(inodes, last_inode, path)
                /\ last_inode' = last_inode + 1
                /\ last' = IF value.k # "none"
                           THEN Reply("lookup", parent, name, "ok", last_inode + 1,
                                      FileType(value), NoEntries)
                           ELSE Reply("lookup", parent, name, "ENOENT", 0, "", NoEntries)
                /\ UNCHANGED alive
    /\ UNCHANGED <<variant, mem, json, ino2inode, file, steps>>

\* Filesystem::lookup
Lookup(parent, name) ==
    /\ alive /\ variant = "path"
    /\ IF parent \notin DOMAIN inodes
       THEN \* inodes.get(&parent).unwrap()
            /\ alive' = FALSE
            /\ last' = Crash("lookup")
            /\ UNCHANGED <<inodes, last_inode>>
       ELSE LET path == inodes[parent] \o <<name>>
                value == get_json_at_path(json, path)
            IN  IF value.k # "none"
                THEN /\ last_inode < MaxInode
                     /\ inodes' = allocate_inode(inodes, last_inode, path)
                     /\ last_inode' = last_inode + 1
                     /\ last' = Reply("lookup", parent, name, "ok", last_inode + 1,
                                      FileType(value), NoEntries)
                     /\ UNCHANGED alive
                ELSE /\ last' = Reply("lookup", parent, name, "ENOENT", 0, "", NoEntries)
                     /\ UNCHANGED <<inodes, last_inode, alive>>
    /\ UNCHANGED <<variant, mem, json, ino2inode, file, steps>>

\* Filesystem::getattr: the reply.  The handler changes nothing, so the
\* reply is a function of the state
GetattrReply(ino) ==
    IF ino \in DOMAIN inodes /\ get_json_at_path(json, inodes[ino]).k # "none"
    THEN Reply("getattr", ino, "", "ok", ino,
               FileType(get_json_at_path(json, inodes[ino])), NoEntries)
    ELSE Reply("getattr", ino, "", "ENOENT", 0, "", NoEntries)

\* the names of the children of a container, in the order readdir walks them
ChildNames(value) ==
    CASE value.k = "obj" -> SortedKeys(value.m)
      [] value.k = "arr" -> [i \in 1..Len(value.v) |-> IndexName(i - 1)]
      [] OTHER -> <<>>

\* the entries vector readdir builds: ".", "..", then one freshly allocated
\* inode per child, whatever the offset
ReaddirEntries(ino, path, value, lastIno) ==
    <<[ino |-> ino, kind |-> "Directory", name |-> "."],
      [ino |-> ino, kind |-> "Directory", name |-> ".."]>> \o
    [i \in 1..Len(ChildNames(value)) |->
        [ino |-> lastIno + i, kind |-> "RegularFile", name |-> ChildNames(value)[i]]]

\* the registry after readdir's allocations
ReaddirInodes(reg, path, value, lastIno) ==
    [i \in DOMAIN reg \cup {lastIno + j : j \in 1..Len(ChildNames(value))} |->
        IF i \in DOMAIN reg THEN reg[i]
        ELSE path \o <<ChildNames(value)[i - lastIno]>>]

\* Filesystem::readdir
Readdir(ino, offset) ==
    /\ alive /\ variant = "path"
    /\ IF ino \in DOMAIN inodes /\ get_json_at_path(json, inodes[ino]).k # "none"
       THEN LET path == inodes[ino]
                value == get_json_at_path(json, path)
                n == Len(ChildNames(value))
                entries == ReaddirEntries(ino, path, value, last_inode)
            IN  /\ last_inode + n <= MaxInode
                /\ inodes' = ReaddirInodes(inodes, path, value, last_inode)
                /\ last_inode' = last_inode + n
                /\ last' = Reply("readdir", ino, "", "ok", 0, "",
                                 SubSeq(entries, offset + 1, Len(entries)))
       ELSE /\ last' = Reply("readdir", ino, "", "ok", 0, "", NoEntries)
            /\ UNCHANGED <<inodes, last_inode>>
    /\ UNCHANGED <<variant, mem, json, ino2inode, file, alive, steps>>

\* write with myflush called ahead of write_json_at_path: the file gets the
\* tree as it was before the mutation
WriteFlushesFirst(ino, data) ==
    /\ alive /\ variant = "path"
    /\ IF ino \notin DOMAIN inodes
       THEN /\ alive' = FALSE
            /\ last' = Crash("write")
            /\ UNCHANGED <<json, file>>
       ELSE LET new == write_json_at_path(json, inodes[ino], data)
            IN  IF new.k = "panic"
                THEN /\ alive' = FALSE
                     /\ last' = Crash("write")
                     /\ UNCHANGED json
                     /\ file' = Document(json)
                ELSE /\ json' = new
                     /\ file' = Document(json)
                     /\ last' = Reply("write", ino, "", "ok", 0, "", NoEntries)
                     /\ UNCHANGED alive
    /\ UNCHANGED <<variant, mem, inodes, last_inode, ino2inode, steps>>

\* Filesystem::write: the offset is ignored, the node becomes String(data)
Write(ino, data) ==
    /\ alive /\ variant = "path"
    /\ IF ino \notin DOMAIN inodes
       THEN \* inodes.get(&ino).unwrap()
            /\ alive' = FALSE
            /\ last' = Crash("write")
            /\ UNCHANGED <<json, file>>
       ELSE LET new == write_json_at_path(json, inodes[ino], data)
            IN  IF new.k = "panic"
                THEN /\ alive' = FALSE
                     /\ last' = Crash("write")
                     /\ UNCHANGED <<json, file>>
                ELSE /\ json' = new
                     /\ file' = Document(new)
                     /\ last' = Reply("write", ino, "", "ok", 0, "", NoEntries)
                     /\ UNCHANGED alive
    /\ UNCHANGED <<variant, mem, inodes, last_inode, ino2inode, steps>>

\* Filesystem::mknod (src/jsonfs.rs only)
Mknod(parent, name) ==
    /\ alive /\ variant = "path"
    /\ IF parent \notin DOMAIN inodes
       THEN /\ alive' = FALSE
            /\ last' = Crash("mknod")
            /\ UNCHANGED <<json, inodes, last_inode>>
       ELSE LET path == inodes[parent] \o <<name>>
                new == write_json_at_path(json, path, <<>>)
            IN  IF new.k = "panic"
                THEN /\ alive' = FALSE
                     /\ last' = Crash("mknod")
                     /\ UNCHANGED <<json, inodes, last_inode>>
                ELSE /\ last_inode < MaxInode
                     /\ json' = new
                     /\ inodes' = allocate_inode(inodes, last_inode, path)
                     /\ last_inode' = last_inode + 1
                     /\ last' = Reply("mknod", parent, name, "ok", last_inode + 1,
                                      "RegularFile", NoEntries)
                     /\ UNCHANGED alive
    /\ UNCHANGED <<variant, mem, ino2inode, file, steps>>

\* Filesystem::flush (src/jsonfs.rs only), JsonFS::myflush
Flush ==
    /\ alive /\ variant = "path"
    /\ file' = Document(json)
    /\ last' = Reply("flush", 0, "", "ok", 0, "", NoEntries)
    /\ UNCHANGED <<variant, mem, json, inodes, last_inode, ino2inode, alive, steps>>

LookupStep == \E parent \in PathInos, name \in Names : Lookup(parent, name)
ReaddirStep == \E ino \in PathInos, offset \in Offsets : Readdir(ino, offset)
WriteStep == \E ino \in PathInos, data \in PathData : Write(ino, data)
MknodStep == \E parent \in PathInos, name \in Names : Mknod(parent, name)

Next == LookupStep \/ ReaddirStep \/ WriteStep \/ MknodStep \/ Flush

Spec == Init /\ [][Next]_vars

(***************************************************************************)
(* The pointer-based filesystem: src/pinjsonfs.rs                          *)
(*                                                                         *)
(* The inode id of a node is the address of its serde_json::Value.  The    *)
(* root Value lives in the pinned Box; the elements of an Array live in    *)
(* the Vec's buffer, in index order; the values of an Object live in the   *)
(* node of the BTreeMap, in key order (the Objects of the model stay below *)
(* the 11 entries of one node).  A heap block is named by a number in      *)
(* 1..NumBufs; a block no container of the tree owns is free, and the      *)
(* allocator may hand out any free block.                                  *)
(***************************************************************************)
\* the address of JsonFS.json in the pinned Box
RootAddr == 8
\* the address of slot number slot of heap block buf
Addr(buf, slot) == 16 * buf + slot

\* the names of the pointer-based requests
PinNames == {"a", "0", "1", "2"}

\* the address of the child called name of the container value
ChildAddr(value, name) ==
    IF value.k = "obj" THEN Addr(value.buf, KeySlot(DOMAIN value.m, name))
    ELSE Addr(value.buf, ParseUsize(name))

\* the addresses of the children of value
ChildAddrs(value) ==
    CASE value.k = "obj" -> {ChildAddr(value, n) : n \in DOMAIN value.m}
      [] value.k = "arr" -> {Addr(value.buf, i - 1) : i \in 1..Len(value.v)}
      [] OTHER -> {}

\* <<path, address>> of every node of the tree value that lives at addr
RECURSIVE PathAddrs(_, _)
PathAddrs(value, addr) ==
    {<<<<>>, addr>>} \cup
    CASE value.k = "obj" ->
            UNION {{<<<<n>> \o pa[1], pa[2]>> :
                        pa \in PathAddrs(value.m[n], ChildAddr(value, n))} :
                   n \in DOMAIN value.m}
      [] value.k = "arr" ->
            UNION {{<<<<IndexName(i - 1)>> \o pa[1], pa[2]>> :
                        pa \in PathAddrs(value.v[i], Addr(value.buf, i - 1))} :
                   i \in 1..Len(value.v)}
      [] OTHER -> {}

\* the heap blocks the containers of a tree own
RECURSIVE UsedBufs(_)
UsedBufs(value) ==
    CASE value.k = "obj" ->
            (IF value.buf = 0 THEN {} ELSE {value.buf}) \cup
            UNION {UsedBufs(value.m[n]) : n \in DOMAIN value.m}
      [] value.k = "arr" ->
            (IF value.buf = 0 THEN {} ELSE {value.buf}) \cup
            UNION {UsedBufs(value.v[i]) : i \in 1..Len(value.v)}
      [] OTHER -> {}

FreeBufs == (1..NumBufs) \ UsedBufs(json)

\* the tree with the node at path replaced by new
RECURSIVE SetAt(_, _, _)
SetAt(value, path, new) ==
    IF path = <<>> THEN new
    ELSE IF value.k = "obj"
         THEN [value EXCEPT !.m[Head(path)] = SetAt(@, Tail(path), new)]
         ELSE [value EXCEPT !.v[ParseUsize(Head(path)) + 1] = SetAt(@, Tail(path), new)]

\* the paths of the nodes that live at address ptr now (none: ptr dangles)
PointsTo(m, ptr) == {pa[1] : pa \in {x \in m : x[2] = ptr}}
\* unsafe { &mut *value } of a registered inode
Dangling(ino) == PointsTo(mem, ino2inode[ino]) = {}
NodePath(ino) == CHOOSE p \in PointsTo(mem, ino2inode[ino]) : TRUE
Deref(ino) == get_json_at_path(json, NodePath(ino))

\* ino2inode after remove(&ino) of every ino of inos
RegRemove(reg, inos) == [i \in DOMAIN reg \ inos |-> reg[i]]
\* ino2inode after insert(ino, Inode {ino, value: ino as *mut Value}) of every address
RegInsert(reg, addrs) == [i \in DOMAIN reg \cup addrs |-> IF i \in addrs THEN i ELSE reg[i]]
\* the remove-all / insert-all pair the Object and push branches wrap a mutation in
Reregister(reg, old, new) == RegInsert(RegRemove(reg, ChildAddrs(old)), ChildAddrs(new))

\* JsonFS::traverse from the root: every node is registered under its address
traverse(tree) == {pa[2] : pa \in PathAddrs(tree, RootAddr)}

\* the document mounted: {"a": ["p", "q"]}; a Vec grown by push from empty
\* holds 4 slots
PinInitDoc == VObj([n \in {"a"} |-> VArr(<<VStr(<<"p">>), VStr(<<"q">>)>>, 2, 4)], 1)
\* another document to mount: {"a": []}; a Vec that holds nothing has no buffer
PinEmptyDoc == VObj([n \in {"a"} |-> VArr(<<>>, 0, 0)], 1)
PinInitDocs == {PinInitDoc, PinEmptyDoc}

\* JsonFS::new
PinInit ==
    /\ variant = "pin"
    /\ json \in PinInitDocs
    /\ mem = PathAddrs(json, RootAddr)
    /\ inodes = [i \in {} |-> <<>>]
    /\ last_inode = 0
    /\ ino2inode = [i \in traverse(json) \cup {FUSE_ROOT_ID} |->
                        IF i = FUSE_ROOT_ID THEN RootAddr ELSE i]
    /\ file = Document(json)
    /\ alive = TRUE
    /\ steps = 0
    /\ last = Reply("mount", 0, "", "ok", 0, "", NoEntries)

\* reply.error(err) and return: the filesystem is as it was (last keeps the
\* reply of the last request that changed it)
PinError(op, ino, name, err) ==
    UNCHANGED <<json, mem, ino2inode, file, alive, steps, last>>

PinPanic(op) ==
    /\ alive' = FALSE
    /\ last' = Crash(op)
    /\ UNCHANGED <<json, mem, ino2inode, file, steps>>

\* a handler dereferenced a pointer no node lives at: undefined behaviour.
\* The process dies, or goes on having touched dead memory only.
PinUndefined(op) ==
    \/ PinPanic(op)
    \/ UNCHANGED <<json, mem, ino2inode, file, alive, steps, last>>

\* Filesystem::lookup: the reply.  The handler changes nothing, so the reply
\* is a function of the state; "ub" stands for a dereference of a pointer
\* no node lives at
PinLookupReply(parent, name) ==
    IF parent \notin DOMAIN ino2inode THEN Reply("lookup", parent, name, "ENOENT", 0, "", NoEntries)
    ELSE IF Dangling(parent) THEN Reply("lookup", parent, name, "ub", 0, "", NoEntries)
    ELSE LET child == lookup_children(Deref(parent), name)
         IN  IF child.k # "none"
             THEN Reply("lookup", parent, name, "ok", ChildAddr(Deref(parent), name),
                        FileType(child), NoEntries)
             ELSE Reply("lookup", parent, name, "ENOENT", 0, "", NoEntries)

\* a handler that only reads: the state changes when it panics (res "panic")
\* or runs into undefined behaviour (res "ub"), and not otherwise
PinReadOnly(reply) ==
    /\ alive /\ variant = "pin"
    /\ CASE reply.res = "ub" -> PinUndefined(reply.op)
         [] reply.res = "panic" -> PinPanic(reply.op)
         [] OTHER -> UNCHANGED <<json, mem, ino2inode, file, alive, steps, last>>
    /\ UNCHANGED <<variant, inodes, last_inode>>

PinLookup(parent, name) == PinReadOnly(PinLookupReply(parent, name))

\* the entries readdir adds for a container: one per child, in key order
\* (sort_by) or index order; there is no "." and no ".."
PinEntries(value) ==
    [i \in 1..Len(ChildNames(value)) |->
        [ino |-> ChildAddr(value, ChildNames(value)[i]),
         kind |-> FileType(lookup_children(value, ChildNames(value)[i])),
         name |-> ChildNames(value)[i]]]

\* Filesystem::readdir: the reply
PinReaddirReply(ino, offset) ==
    IF ino \notin DOMAIN ino2inode THEN Reply("readdir", ino, "", "ok", 0, "", NoEntries)
    ELSE IF Dangling(ino) THEN Reply("readdir", ino, "", "ub", 0, "", NoEntries)
    ELSE Reply("readdir", ino, "", "ok", 0, "",
               SubSeq(PinEntries(Deref(ino)), offset + 1, Len(PinEntries(Deref(ino)))))

PinReaddir(ino, offset) == PinReadOnly(PinReaddirReply(ino, offset))

(***************************************************************************)
(* The reply buffer of readdir.  The kernel asks for a directory with a    *)
(* buffer of a given size; reply.add appends an entry when it fits and     *)
(* returns true, leaving the buffer as it was, when it does not.  The      *)
(* kernel asks again with the next-offset of the last entry it was given,  *)
(* until a reply holds no entry.                                           *)
(***************************************************************************)
\* the buffer sizes of the readdir requests: room for two short entries, and
\* room for every entry
BufSizes == {64, 4096}

\* the bytes an entry takes in the buffer: the 24 bytes of struct fuse_dirent
\* and the name, padded to a multiple of 8
EntSize(name) == ((24 + Len(name) + 7) \div 8) * 8

EmptyBuf == [used |-> 0, entries |-> <<>>]

\* reply.add(ino, offset, kind, name) on a buffer of max bytes
ReplyAdd(buf, entry, max) ==
    IF buf.used + EntSize(entry.name) > max THEN buf
    ELSE [used |-> buf.used + EntSize(entry.name),
          entries |-> Append(buf.entries, entry)]

\* the entries of a container with the next-offset readdir gives each: its
\* position counted from 1 (child_index + 1)
PinDirents(value) ==
    [i \in 1..Len(PinEntries(value)) |->
        [ino |-> PinEntries(value)[i].ino, kind |-> PinEntries(value)[i].kind,
         name |-> PinEntries(value)[i].name, offset |-> i]]

\* the loop of readdir from entry number i on: `let _ = reply.add(..)`, the
\* answer of add is dropped and the loop goes on to the next entry
RECURSIVE AddEntries(_, _, _, _)
AddEntries(buf, dirents, i, max) ==
    IF i > Len(dirents) THEN buf
    ELSE AddEntries(ReplyAdd(buf, dirents[i], max), dirents, i + 1, max)

\* Filesystem::readdir into a buffer of size bytes: the entries sent;
\* skip(offset) leaves out the first offset entries
PinReaddirChunk(ino, offset, size) ==
    AddEntries(EmptyBuf, PinDirents(Deref(ino)), offset + 1, size).entries

\* the kernel reading a directory to its end: the chunks it is given, one
\* after the other
RECURSIVE ReadDirectory(_, _, _)
ReadDirectory(ino, offset, size) ==
    LET chunk == PinReaddirChunk(ino, offset, size)
    IN  IF chunk = <<>> THEN <<>>
        ELSE chunk \o ReadDirectory(ino, chunk[Len(chunk)].offset, size)

DigitChar(d) ==
    CASE d = 0 -> "0" [] d = 1 -> "1" [] d = 2 -> "2" [] d = 3 -> "3"
      [] d = 4 -> "4" [] d = 5 -> "5" [] d = 6 -> "6" [] d = 7 -> "7"
      [] d = 8 -> "8" [] OTHER -> "9"

\* u64::to_string(): the decimal digits
RECURSIVE NumToString(_)
NumToString(n) ==
    IF n < 10 THEN <<DigitChar(n)>> ELSE Append(NumToString(n \div 10), DigitChar(n % 10))

Min(a, b) == IF a < b THEN a ELSE b

\* Value::to_string() of a scalar: its JSON text, which the path-based read
\* slices and whose length create_attr reports as the size of the file
to_string(value) ==
    CASE value.k = "null" -> <<"n", "u", "l", "l">>
      [] value.k = "bool" -> IF value.b THEN <<"t", "r", "u", "e">>
                             ELSE <<"f", "a", "l", "s", "e">>
      [] value.k = "num" -> NumToString(value.n)

\* the content of the file of a scalar: a String is its text, unquoted
Content(value) == IF value.k = "str" THEN value.s ELSE to_string(value)

\* create_attr: the size reported for a scalar node, the length of a String
\* or of the JSON text of any other scalar
AttrSize(value) == IF value.k = "str" THEN Len(value.s) ELSE Len(to_string(value))

\* the bytes read replies with for a scalar; Panic when the slice
\* [offset .. min(offset + size, len)] starts after its end
Bytes(s) == [k |-> "bytes", s |-> s]
ReadData(value, offset, size) ==
    CASE value.k = "null" -> Bytes(<<>>)
      [] value.k = "bool" -> IF value.b THEN Bytes(<<1>>) ELSE Bytes(<<0>>)
      [] value.k = "num" -> Bytes(NumToString(value.n))
      [] value.k = "str" ->
            IF offset > Min(offset + size, Len(value.s)) THEN Panic
            ELSE Bytes(SubSeq(value.s, offset + 1, Min(offset + size, Len(value.s))))
      [] OTHER -> None

\* Filesystem::read: the reply
PinReadReply(ino, offset, size) ==
    IF ino \notin DOMAIN ino2inode THEN Reply("read", ino, "", "ENOENT", 0, "", NoEntries)
    ELSE IF Dangling(ino) THEN Reply("read", ino, "", "ub", 0, "", NoEntries)
    ELSE LET data == ReadData(Deref(ino), offset, size)
         IN  IF data.k = "panic" THEN Reply("read", ino, "", "panic", 0, "", NoEntries)
             ELSE IF data.k = "none" THEN Reply("read", ino, "", "ENOENT", 0, "", NoEntries)
             ELSE [Reply("read", ino, "", "ok", 0, "", NoEntries) EXCEPT !.data = data.s]

PinRead(ino, offset, size) == PinReadOnly(PinReadReply(ino, offset, size))

\* or_insert with the default of create given whatever the caller asks for:
\* the new key holds an empty String
MapInsertEmptyString(obj, name, default, nb) ==
    IF name \in DOMAIN obj.m THEN obj
    ELSE VObj([n \in DOMAIN obj.m \cup {name} |->
                   IF n = name THEN VStr(<<>>) ELSE obj.m[n]],
              IF obj.buf = 0 THEN nb ELSE obj.buf)

\* map.entry(name).or_insert(default): the map of obj afterwards; nb is the
\* block the allocator gives when the map has no node yet
MapInsert(obj, name, default, nb) ==
    IF name \in DOMAIN obj.m THEN obj
    ELSE VObj([n \in DOMAIN obj.m \cup {name} |->
                   IF n = name THEN default ELSE obj.m[n]],
              IF obj.buf = 0 THEN nb ELSE obj.buf)

\* the blocks or_insert may get from the allocator
MapInsertBlocks(obj, name) ==
    IF name \notin DOMAIN obj.m /\ obj.buf = 0 THEN FreeBufs ELSE {0}

\* RawVec::grow_amortized: max(2 * cap, 4)
GrowCap(cap) == IF 2 * cap > 4 THEN 2 * cap ELSE 4

\* vec.push(elem): within the capacity the buffer stays; a full Vec is
\* reallocated, to block nb
VecPush(arr, elem, nb) ==
    IF Len(arr.v) < arr.cap THEN VArr(Append(arr.v, elem), arr.buf, arr.cap)
    ELSE VArr(Append(arr.v, elem), nb, GrowCap(arr.cap))

\* the blocks a push may end in: realloc grows the block in place or moves it
VecPushBlocks(arr) ==
    IF Len(arr.v) < arr.cap THEN {arr.buf}
    ELSE (IF arr.buf = 0 THEN {} ELSE {arr.buf}) \cup FreeBufs

\* a removal that removes nothing
RemoveChildNothing(value, name) == value

\* the Object or Array with the child called name removed
RemoveChild(value, name) ==
    IF value.k = "obj"
    THEN VObj([n \in DOMAIN value.m \ {name} |-> value.m[n]], value.buf)
    ELSE LET i == ParseUsize(name) + 1
         IN  VArr(SubSeq(value.v, 1, i - 1) \o SubSeq(value.v, i + 1, Len(value.v)),
                  value.buf, value.cap)

\* a request that inserted or found the child called name of the container
\* new, which replaces the node at path
PinInserted(op, parent, name, path, new, reg) ==
    /\ json' = SetAt(json, path, new)
    /\ mem' = PathAddrs(json', RootAddr)
    /\ ino2inode' = reg
    /\ last' = Reply(op, parent, name, "ok", ChildAddr(new, name),
                     FileType(lookup_children(new, name)), NoEntries)
    /\ steps' = steps + 1
    /\ UNCHANGED <<file, alive>>

\* Filesystem::mkdir
PinMkdir(parent, name) ==
    /\ alive /\ variant = "pin" /\ steps < MaxSteps
    /\ IF parent \notin DOMAIN ino2inode THEN PinError("mkdir", parent, name, "ENOENT")
       ELSE IF Dangling(parent) THEN PinUndefined("mkdir")
       ELSE LET pv == Deref(parent)
                path == NodePath(parent)
            IN  CASE pv.k = "obj" ->
                       \E nb \in MapInsertBlocks(pv, name) :
                            LET new == MapInsert(pv, name, VObj(EmptyMap, 0), nb)
                            IN  PinInserted("mkdir", parent, name, path, new,
                                            Reregister(ino2inode, pv, new))
                  [] pv.k = "arr" ->
                       \* the name is not looked at: the directory is pushed
                       \E nb \in VecPushBlocks(pv) :
                            LET new == VecPush(pv, VObj(EmptyMap, 0), nb)
                            IN  PinInserted("mkdir", parent, IndexName(Len(pv.v)), path,
                                            new, Reregister(ino2inode, pv, new))
                  [] OTHER ->
                       \* no reply is sent; fuser answers EIO when the reply is dropped
                       PinError("mkdir", parent, name, "EIO")
    /\ UNCHANGED <<variant, inodes, last_inode>>

\* the node write leaves at a node holding value; Panic when replace_range
\* is given a start beyond the end of the string
WriteValue(value, offset, content) ==
    IF ParseU64(content) >= 0 THEN VNum(ParseU64(content))
    ELSE IF value.k = "str"
         THEN IF offset > Len(value.s) THEN Panic
              ELSE VStr(SubSeq(value.s, 1, offset) \o content)
         ELSE VStr(content)

\* Filesystem::write
PinWrite(ino, offset, data) ==
    /\ alive /\ variant = "pin" /\ steps < MaxSteps
    /\ IF ino \notin DOMAIN ino2inode THEN PinError("write", ino, "", "ENOENT")
       ELSE IF Dangling(ino) THEN PinUndefined("write")
       ELSE LET new == WriteValue(Deref(ino), offset, data)
            IN  IF new.k = "panic" THEN PinPanic("write")
                ELSE /\ json' = SetAt(json, NodePath(ino), new)
                     /\ mem' = PathAddrs(json', RootAddr)
                     /\ last' = Reply("write", ino, "", "ok", 0, "", NoEntries)
                     /\ steps' = steps + 1
                     /\ UNCHANGED <<ino2inode, file, alive>>
    /\ UNCHANGED <<variant, inodes, last_inode>>

\* Filesystem::create
PinCreate(parent, name) ==
    /\ alive /\ variant = "pin" /\ steps < MaxSteps
    /\ IF parent \notin DOMAIN ino2inode THEN PinError("create", parent, name, "ENOSYS")
       ELSE IF Dangling(parent) THEN PinUndefined("create")
       ELSE LET pv == Deref(parent)
                path == NodePath(parent)
            IN  CASE pv.k = "obj" /\ DOMAIN pv.m = {} /\ ParseUsize(name) = 0 ->
                       \* the empty Object becomes the Array [""]
                       \E nb \in FreeBufs :
                            LET new == VArr(<<VStr(<<>>)>>, nb, 1)
                            IN  PinInserted("create", parent, name, path, new,
                                            RegInsert(ino2inode, {Addr(nb, 0)}))
                  [] pv.k = "obj" /\ ~(DOMAIN pv.m = {} /\ ParseUsize(name) = 0) ->
                       \E nb \in MapInsertBlocks(pv, name) :
                            LET new == MapInsert(pv, name, VStr(<<>>), nb)
                            IN  PinInserted("create", parent, name, path, new,
                                            Reregister(ino2inode, pv, new))
                  [] pv.k = "arr" /\ Len(pv.v) = 0 /\ ParseUsize(name) # 0 ->
                       \* the empty Array becomes the Object {name: ""}
                       \E nb \in FreeBufs :
                            LET new == VObj([n \in {name} |-> VStr(<<>>)], nb)
                            IN  PinInserted("create", parent, name, path, new,
                                            RegInsert(ino2inode, {Addr(nb, 0)}))
                  [] pv.k = "arr" /\ ~(Len(pv.v) = 0 /\ ParseUsize(name) # 0) ->
                       IF ParseUsize(name) < 0
                       THEN PinError("create", parent, name, "EINVAL")
                       ELSE IF ParseUsize(name) = Len(pv.v)
                       THEN \E nb \in VecPushBlocks(pv) :
                                 LET new == VecPush(pv, VStr(<<>>), nb)
                                 IN  PinInserted("create", parent, name, path, new,
                                                 Reregister(ino2inode, pv, new))
                       ELSE PinError("create", parent, name, "ENOSYS")
                  [] OTHER -> PinError("create", parent, name, "ENOSYS")
    /\ UNCHANGED <<variant, inodes, last_inode>>

\* Filesystem::unlink
PinUnlink(parent, name) ==
    /\ alive /\ variant = "pin" /\ steps < MaxSteps
    /\ IF parent \notin DOMAIN ino2inode THEN PinError("unlink", parent, name, "ENOSYS")
       ELSE IF Dangling(parent) THEN PinUndefined("unlink")
       ELSE LET pv == Deref(parent)
                path == NodePath(parent)
            IN  CASE pv.k = "obj" ->
                       \* answered ok whether or not the key was there
                       LET new == RemoveChild(pv, name)
                       IN  /\ json' = SetAt(json, path, new)
                           /\ mem' = PathAddrs(json', RootAddr)
                           /\ ino2inode' = Reregister(ino2inode, pv, new)
                           /\ file' = Document(json')
                           /\ last' = Reply("unlink", parent, name, "ok", 0, "", NoEntries)
                           /\ steps' = steps + 1
                           /\ UNCHANGED alive
                  [] pv.k = "arr" ->
                       IF ParseUsize(name) < 0
                       THEN \* name.parse::<usize>().unwrap()
                            PinPanic("unlink")
                       ELSE IF ParseUsize(name) < Len(pv.v)
                       THEN /\ json' = SetAt(json, path, RemoveChild(pv, name))
                            /\ mem' = PathAddrs(json', RootAddr)
                            /\ ino2inode' = RegRemove(ino2inode, {ChildAddr(pv, name)})
                            /\ file' = Document(json')
                            /\ last' = Reply("unlink", parent, name, "ok", 0, "", NoEntries)
                            /\ steps' = steps + 1
                            /\ UNCHANGED alive
                       ELSE PinError("unlink", parent, name, "ENOSYS")
                  [] OTHER -> PinError("unlink", parent, name, "ENOSYS")
    /\ UNCHANGED <<variant, inodes, last_inode>>

\* Filesystem::flush, JsonFS::myflush
PinFlush ==
    /\ alive /\ variant = "pin" /\ steps < MaxSteps
    /\ file' = Document(json)
    /\ last' = Reply("flush", 0, "", "ok", 0, "", NoEntries)
    /\ steps' = steps + 1
    /\ UNCHANGED <<variant, mem, json, inodes, last_inode, ino2inode, alive>>

\* the inode ids a request may carry: the registered ones, and the address of
\* every node (lookup and readdir hand it out whether it is registered or not)
PinInos == DOMAIN ino2inode \cup {pa[2] : pa \in mem}

PinLookupStep == \E parent \in PinInos, name \in PinNames : PinLookup(parent, name)
PinReaddirStep == \E ino \in PinInos, offset \in Offsets : PinReaddir(ino, offset)
PinReadStep == \E ino \in PinInos, offset \in Offsets, size \in Sizes : PinRead(ino, offset, size)
PinMkdirStep == \E parent \in PinInos, name \in PinNames : PinMkdir(parent, name)
PinWriteStep == \E ino \in PinInos, offset \in WriteOffsets, data \in Data : PinWrite(ino, offset, data)
PinCreateStep == \E parent \in PinInos, name \in PinNames : PinCreate(parent, name)
PinUnlinkStep == \E parent \in PinInos, name \in PinNames : PinUnlink(parent, name)

PinNext ==
    \/ PinLookupStep \/ PinReaddirStep \/ PinReadStep \/ PinMkdirStep
    \/ PinWriteStep \/ PinCreateStep \/ PinUnlinkStep \/ PinFlush

PinSpec == PinInit /\ [][PinNext]_vars

\* a document that holds a scalar of each kind: [null, true, 17, "hi"]
PinScalarsDoc ==
    VArr(<<VNull, VBool(TRUE), VNum(17), VStr(<<"h", "i">>)>>, 1, 4)

\* JsonFS::new on that document
PinScalarsInit ==
    /\ variant = "pin"
    /\ json = PinScalarsDoc
    /\ mem = PathAddrs(json, RootAddr)
    /\ inodes = [i \in {} |-> <<>>]
    /\ last_inode = 0
    /\ ino2inode = [i \in traverse(json) \cup {FUSE_ROOT_ID} |->
                        IF i = FUSE_ROOT_ID THEN RootAddr ELSE i]
    /\ file = Document(json)
    /\ alive = TRUE
    /\ steps = 0
    /\ last = Reply("mount", 0, "", "ok", 0, "", NoEntries)

PinScalarsSpec == PinScalarsInit /\ [][PinNext]_vars

\* a document whose keys differ in length: {"a": "x", "attachments": "y", "b": "z"}
PinDirDoc ==
    VObj([n \in {"a", "attachments", "b"} |->
            IF n = "a" THEN VStr(<<"x">>)
            ELSE IF n = "b" THEN VStr(<<"z">>) ELSE VStr(<<"y">>)], 1)

\* JsonFS::new on that document
PinDirInit ==
    /\ variant = "pin"
    /\ json = PinDirDoc
    /\ mem = PathAddrs(json, RootAddr)
    /\ inodes = [i \in {} |-> <<>>]
    /\ last_inode = 0
    /\ ino2inode = [i \in traverse(json) \cup {FUSE_ROOT_ID} |->
                        IF i = FUSE_ROOT_ID THEN RootAddr ELSE i]
    /\ file = Document(json)
    /\ alive = TRUE
    /\ steps = 0
    /\ last = Reply("mount", 0, "", "ok", 0, "", NoEntries)

PinDirSpec == PinDirInit /\ [][PinNext]_vars

(***************************************************************************)
(* Either filesystem: fuser::mount2 is given one of the two JsonFS         *)
(***************************************************************************)
JsonFsInit == Init \/ PinInit
JsonFsNext == Next \/ PinNext
JsonFsSpec == JsonFsInit /\ [][JsonFsNext]_vars

(***************************************************************************)
(* The backing file when the write of a flush does not run to its end.     *)
(*                                                                         *)
(* myflush is fs::write(path, text).unwrap(): fs::write opens the live     *)
(* file with O_TRUNC (it is empty from then on) and writes the text into   *)
(* it with write_all; there is no temporary file and no rename.            *)
(***************************************************************************)
\* the backing file between the truncation and the end of write_all: empty,
\* or a proper prefix of the text
TornFile == [k |-> "torn"]

\* Filesystem::flush when the process is stopped (killed, power lost) while
\* fs::write is under way
FlushInterrupted ==
    /\ alive
    /\ variant = "pin" => steps < MaxSteps
    /\ file' = TornFile
    /\ alive' = FALSE
    /\ last' = Reply("flush", 0, "", "killed", 0, "", NoEntries)
    /\ UNCHANGED <<variant, json, mem, inodes, last_inode, ino2inode, steps>>

\* Filesystem::flush when fs::write returns Err: the file could not be
\* opened (it is as it was) or write_all failed part-way (it is torn); the
\* unwrap() in myflush panics
FlushIoError ==
    /\ alive
    /\ variant = "pin" => steps < MaxSteps
    /\ file' \in {file, TornFile}
    /\ alive' = FALSE
    /\ last' = Crash("flush")
    /\ UNCHANGED <<variant, json, mem, inodes, last_inode, ino2inode, steps>>

FaultNext == JsonFsNext \/ FlushInterrupted \/ FlushIoError
FaultSpec == JsonFsInit /\ [][FaultNext]_vars

(***************************************************************************)
(* Properties                                                              *)
(***************************************************************************)
\* C1: no two live inode ids are bound to the same location (every location
\* has at most one live id), in the path registry and in the pointer registry
C1_OneIdPerLocation ==
    /\ \A i, j \in DOMAIN inodes : inodes[i] = inodes[j] => i = j
    /\ \A i, j \in DOMAIN ino2inode : ino2inode[i] = ino2inode[j] => i = j

\* C2: every live inode id of the registry resolves to a node that exists in
\* the tree now: a bound path leads to a node, a registered pointer has a
\* node living at its address
C2_LiveIdsResolve ==
    /\ \A i \in DOMAIN inodes : get_json_at_path(json, inodes[i]).k # "none"
    /\ \A i \in DOMAIN ino2inode : ~Dangling(i)

\* C3: a node observed twice in a row (nothing is released in between) gets
\* the same inode id both times: a successful lookup repeated under the same
\* parent with the same name returns the id of the first, and a readdir of
\* the parent right after a lookup lists the child under the id the lookup
\* returned
C3_SameNodeSameId ==
    [][/\ (/\ last.op = "lookup" /\ last.res = "ok"
           /\ last'.op = "lookup" /\ last'.res = "ok"
           /\ last'.ino = last.ino /\ last'.name = last.name)
          => last'.rino = last.rino
       /\ (/\ last.op = "lookup" /\ last.res = "ok"
           /\ last'.op = "readdir" /\ last'.res = "ok"
           /\ last'.ino = last.ino)
          => \A k \in 1..Len(last'.entries) :
                last'.entries[k].name = last.name
                => last'.entries[k].ino = last.rino]_vars

\* C4: an inode id that translates to a node stays live and keeps translating
\* to the node at the same place of the tree across a successful create or
\* mkdir, and across a successful write to a node that is neither that node
\* nor one of its ancestors
C4_IdKeepsItsNode ==
    [][\A w \in DOMAIN ino2inode :
          (/\ last'.op \in {"create", "mkdir", "write"} /\ last'.res = "ok"
           /\ steps' = steps + 1
           /\ last'.ino = w /\ ~Dangling(w))
          => \A i \in DOMAIN ino2inode :
                (/\ ~Dangling(i)
                 /\ last'.op = "write" =>
                       SubSeq(NodePath(i), 1, Len(NodePath(w))) # NodePath(w))
                => /\ i \in DOMAIN ino2inode'
                   /\ PointsTo(mem', ino2inode'[i]) = PointsTo(mem, ino2inode[i])]_vars

\* C5: an inode id an unlink has just released is not the id a lookup made
\* right after the unlink returns for any node: a released id value is not
\* handed out again
C5_ReleasedIdNotReused ==
    [][\A r \in DOMAIN ino2inode, parent \in PinInos, name \in PinNames :
          (/\ last'.op = "unlink" /\ last'.res = "ok" /\ steps' = steps + 1
           /\ r \notin DOMAIN ino2inode')
          => ~(/\ PinLookupReply(parent, name)'.res = "ok"
               /\ PinLookupReply(parent, name)'.rino = r)]_vars

\* C6: when unlink removes element i of an Array, no id bound to an element
\* j > i of that Array is live when unlink returns
C6_ShiftedIdsReleased ==
    [][\A p \in DOMAIN ino2inode, i \in 0..9, j \in 0..9 :
          (/\ last'.op = "unlink" /\ last'.res = "ok" /\ steps' = steps + 1
           /\ last'.ino = p /\ last'.name = IndexName(i)
           /\ ~Dangling(p) /\ Deref(p).k = "arr"
           /\ i < j /\ j < Len(Deref(p).v))
          => Addr(Deref(p).buf, j) \notin DOMAIN ino2inode']_vars

\* C7: after unlink(parent, i) of an Array parent of length n the Array is the
\* old one without element i, and for i <= j < n - 1 the id lookup(parent, j)
\* returns reads as the old element j + 1 (a scalar element; a container has
\* no content to read)
C7_UnlinkRenumbers ==
    [][\A p \in DOMAIN ino2inode, i \in 0..9 :
          (/\ last'.op = "unlink" /\ last'.res = "ok" /\ steps' = steps + 1
           /\ last'.ino = p /\ last'.name = IndexName(i)
           /\ ~Dangling(p) /\ Deref(p).k = "arr")
          => /\ Deref(p)'.v = RemoveChild(Deref(p), IndexName(i)).v
             /\ \A j \in i..(Len(Deref(p).v) - 2) :
                   FileType(Deref(p).v[j + 2]) = "RegularFile"
                   => /\ PinLookupReply(p, IndexName(j))'.res = "ok"
                      /\ PinReadReply(PinLookupReply(p, IndexName(j)).rino, 0, 8)'.res = "ok"
                      /\ PinReadReply(PinLookupReply(p, IndexName(j)).rino, 0, 8)'.data
                            = ReadData(Deref(p).v[j + 2], 0, 8).s]_vars

\* C8: the reserved root id FUSE_ROOT_ID is bound to the root of the tree in
\* every reachable state: to the empty path in the path registry, to the
\* address the root Value lives at in the pointer registry
C8_RootIdPermanent ==
    /\ variant = "path" =>
          FUSE_ROOT_ID \in DOMAIN inodes /\ inodes[FUSE_ROOT_ID] = <<>>
    /\ variant = "pin" =>
          /\ FUSE_ROOT_ID \in DOMAIN ino2inode
          /\ PointsTo(mem, ino2inode[FUSE_ROOT_ID]) = {<<>>}

\* the root Object of the pointer-based filesystem was emptied and then
\* converted to an Array by create
C8_RootConverted ==
    /\ variant = "pin" /\ alive
    /\ json.k = "arr" /\ last.op = "create" /\ last.ino \in {FUSE_ROOT_ID, RootAddr}

\* C9: creating the same name under the same parent twice, one request right
\* after the other (no unlink in between), returns the same inode id
C9_CreateTwiceSameId ==
    [][(/\ last.op \in {"mknod", "create"} /\ last.res = "ok"
        /\ last'.op = last.op /\ last'.res = "ok"
        /\ last'.ino = last.ino /\ last'.name = last.name)
       => last'.rino = last.rino]_vars

\* C10: a successful mknod of a name that exists in an Object parent leaves
\* the tree as it was (the existing child keeps its value)
C10_ExistingNameUntouched ==
    [][\A p \in DOMAIN inodes, n \in Names :
          (/\ last'.op = "mknod" /\ last'.res = "ok" /\ last_inode' = last_inode + 1
           /\ last'.ino = p /\ last'.name = n
           /\ get_json_at_path(json, inodes[p]).k = "obj"
           /\ n \in DOMAIN get_json_at_path(json, inodes[p]).m)
          => json' = json]_vars

\* C11: a write to a String node at the offset equal to its length appends:
\* the node then holds the old content followed by the data (as a String, or
\* as the Number that whole content parses to)
C11_WriteAtEndAppends ==
    [][\A ino \in DOMAIN ino2inode, data \in Data :
          (/\ variant = "pin" /\ ~Dangling(ino) /\ Deref(ino).k = "str"
           /\ PinWrite(ino, Len(Deref(ino).s), data))
          => LET whole == Deref(ino).s \o data
                 new == get_json_at_path(json', NodePath(ino))
             IN  \/ new = VStr(whole)
                 \/ ParseU64(whole) >= 0 /\ new = VNum(ParseU64(whole))]_vars

\* C12: a write to a String node at an offset beyond its length is refused
\* with an error reply: the filesystem goes on and the tree is as it was
C12_WriteBeyondEndRejected ==
    [][\A ino \in DOMAIN ino2inode, data \in Data, offset \in WriteOffsets :
          (/\ variant = "pin" /\ ~Dangling(ino) /\ Deref(ino).k = "str"
           /\ offset > Len(Deref(ino).s)
           /\ PinWrite(ino, offset, data))
          => alive' /\ json' = json]_vars

\* C13: a write to a String node at an offset inside it replaces the bytes
\* [offset, offset + len(data)) and keeps the bytes before and after them
\* (the node holds that content as a String, or as the Number it parses to)
C13_WriteInsideSplices ==
    [][\A ino \in DOMAIN ino2inode, data \in Data, offset \in WriteOffsets :
          (/\ variant = "pin" /\ ~Dangling(ino) /\ Deref(ino).k = "str"
           /\ offset < Len(Deref(ino).s)
           /\ PinWrite(ino, offset, data))
          => LET old == Deref(ino).s
                 whole == SubSeq(old, 1, offset) \o data
                          \o SubSeq(old, offset + Len(data) + 1, Len(old))
                 new == get_json_at_path(json', NodePath(ino))
             IN  \/ new = VStr(whole)
                 \/ ParseU64(whole) >= 0 /\ new = VNum(ParseU64(whole))]_vars

\* C14: after a write to a scalar node the node is a Number exactly when its
\* whole new content parses as an integer (for a String node written at an
\* offset within it: the bytes kept before the offset followed by the data),
\* and is otherwise a String holding that content
C14_NumberIffWholeContentParses ==
    [][\A ino \in DOMAIN ino2inode, data \in Data, offset \in WriteOffsets :
          (/\ variant = "pin" /\ ~Dangling(ino)
           /\ Deref(ino).k \notin {"obj", "arr"}
           /\ Deref(ino).k = "str" => offset <= Len(Deref(ino).s)
           /\ PinWrite(ino, offset, data))
          => LET whole == IF Deref(ino).k = "str"
                          THEN SubSeq(Deref(ino).s, 1, offset) \o data
                          ELSE data
                 new == get_json_at_path(json', NodePath(ino))
             IN  IF ParseU64(whole) >= 0
                 THEN new = VNum(ParseU64(whole))
                 ELSE new = VStr(whole)]_vars

\* C15: create on an Array parent appends exactly one empty String when the
\* name parses as the array's length, and for any other name leaves the
\* document (the array's kind and length included) as it was
C15_ArrayCreateStrictAppend ==
    [][\A parent \in DOMAIN ino2inode, name \in PinNames :
          (/\ variant = "pin" /\ ~Dangling(parent) /\ Deref(parent).k = "arr"
           /\ PinCreate(parent, name))
          => LET new == get_json_at_path(json', NodePath(parent))
             IN  IF ParseUsize(name) = Len(Deref(parent).v)
                 THEN new.k = "arr" /\ new.v = Append(Deref(parent).v, VStr(<<>>))
                 ELSE json' = json]_vars

\* C16: create changes the kind of its parent container in exactly two
\* cases: an empty Array created in under a non-numeric name becomes an
\* Object holding just that key, and an empty Object created in under the
\* index 0 becomes an Array of one element; otherwise the parent keeps its kind
C16_CreateConvertsKindInTwoCases ==
    [][\A parent \in DOMAIN ino2inode, name \in PinNames :
          (/\ variant = "pin" /\ ~Dangling(parent)
           /\ Deref(parent).k \in {"obj", "arr"}
           /\ PinCreate(parent, name))
          => LET old == Deref(parent)
                 new == get_json_at_path(json', NodePath(parent))
             IN  CASE old.k = "arr" /\ Len(old.v) = 0 /\ ParseUsize(name) < 0 ->
                        new.k = "obj" /\ DOMAIN new.m = {name}
                   [] old.k = "obj" /\ DOMAIN old.m = {} /\ ParseUsize(name) = 0 ->
                        new.k = "arr" /\ Len(new.v) = 1
                   [] OTHER -> new.k = old.k]_vars

\* C17: mkdir inserts as create does, with an empty Object as the default
\* value: get-or-create on an Object, an empty Object under the index 0
\* becoming a one-element Array, an empty Array under a name other than 0
\* becoming a one-key Object, an append to an Array only under the name of
\* its length, and no change of the document otherwise
C17_MkdirInsertsAsCreate ==
    [][\A parent \in DOMAIN ino2inode, name \in PinNames :
          (/\ variant = "pin" /\ ~Dangling(parent)
           /\ PinMkdir(parent, name))
          => LET old == Deref(parent)
                 new == get_json_at_path(json', NodePath(parent))
                 dir == VObj(EmptyMap, 0)
             IN  CASE old.k = "obj" /\ DOMAIN old.m = {} /\ ParseUsize(name) = 0 ->
                        new.k = "arr" /\ new.v = <<dir>>
                   [] old.k = "obj" /\ ~(DOMAIN old.m = {} /\ ParseUsize(name) = 0) ->
                        /\ new.k = "obj"
                        /\ DOMAIN new.m = DOMAIN old.m \cup {name}
                        /\ \A n \in DOMAIN old.m : new.m[n] = old.m[n]
                        /\ name \notin DOMAIN old.m => new.m[name] = dir
                   [] old.k = "arr" /\ Len(old.v) = 0 /\ ParseUsize(name) # 0 ->
                        new.k = "obj" /\ DOMAIN new.m = {name} /\ new.m[name] = dir
                   [] old.k = "arr" /\ ~(Len(old.v) = 0 /\ ParseUsize(name) # 0) ->
                        IF ParseUsize(name) = Len(old.v)
                        THEN new.k = "arr" /\ new.v = Append(old.v, dir)
                        ELSE json' = json
                   [] OTHER -> json' = json]_vars

\* C18: after mkdir(parent, name) on an Object parent that had no child
\* called name, lookup(parent, name) answers ok with kind Directory and the
\* id mkdir replied with, and readdir of that id answers ok with no entries
\* (the step is the one that answers the mkdir: its reply names parent and
\* name, which the parent did not have)
C18_MkdirThenLookupReaddir ==
    [][(/\ variant = "pin" /\ last'.op = "mkdir"
        /\ last'.ino \in DOMAIN ino2inode /\ ~Dangling(last'.ino)
        /\ Deref(last'.ino).k = "obj"
        /\ last'.name \notin DOMAIN Deref(last'.ino).m)
       => /\ last'.res = "ok"
          /\ PinLookupReply(last.ino, last.name)' =
                Reply("lookup", last'.ino, last'.name, "ok", last'.rino,
                      "Directory", NoEntries)
          /\ PinReaddirReply(last.rino, 0)' =
                Reply("readdir", last'.rino, "", "ok", 0, "", <<>>)]_vars

\* mkdir(root, "0") has made a directory the root did not have
C18_DirectoryMade ==
    /\ variant = "pin" /\ alive /\ steps = 1
    /\ last.op = "mkdir" /\ last.res = "ok" /\ last.kind = "Directory"
    /\ last.ino = FUSE_ROOT_ID /\ last.name = "0"
    /\ json.k = "obj" /\ DOMAIN json.m = {"0", "a"}
    /\ json.m["0"] = VObj(EmptyMap, 0)
    /\ last.rino \in DOMAIN ino2inode

\* C19: unlink(parent, name) on an Object parent that has the key removes
\* that key and its subtree and nothing else: the nodes of the document
\* afterwards are those that were not in the removed subtree, each of the
\* kind and scalar value it had, and lookup(parent, name) answers ENOENT
\* (the step is the one that answers the unlink: its reply names parent and
\* name, which the parent had)
C19_UnlinkRemovesJustTheKey ==
    [][(/\ variant = "pin" /\ last'.op = "unlink"
        /\ last'.ino \in DOMAIN ino2inode /\ ~Dangling(last'.ino)
        /\ Deref(last'.ino).k = "obj"
        /\ last'.name \in DOMAIN Deref(last'.ino).m)
       => LET gone == NodePath(last'.ino) \o <<last'.name>>
              kept == {q \in {pa[1] : pa \in mem} :
                          ~(Len(q) >= Len(gone) /\ SubSeq(q, 1, Len(gone)) = gone)}
          IN  /\ last'.res = "ok"
              /\ {pa[1] : pa \in mem'} = kept
              /\ \A q \in kept :
                    LET old == get_json_at_path(json, q)
                        new == get_json_at_path(json', q)
                    IN  IF old.k \in {"obj", "arr"} THEN new.k = old.k ELSE new = old
              /\ PinLookupReply(last.ino, last.name)'.res = "ENOENT"]_vars

\* unlink(root, "a") has removed the key a and left the key 0 made before it
C19_KeyRemoved ==
    /\ variant = "pin" /\ alive /\ steps = 2
    /\ last.op = "unlink" /\ last.res = "ok"
    /\ last.ino = FUSE_ROOT_ID /\ last.name = "a"
    /\ json.k = "obj" /\ DOMAIN json.m = {"0"}
    /\ PinLookupReply(FUSE_ROOT_ID, "a").res = "ENOENT"

\* C20: unlink(parent, name) where name is not a child of parent (parent is
\* unknown or a scalar, an Object without the key, an Array without the
\* index) is refused: the process lives on and the document, the registry
\* and the backing file are as they were
C20_UnlinkOfNoChildRefused ==
    [][\A parent \in PinInos, name \in PinNames :
          (/\ variant = "pin"
           /\ \/ parent \notin DOMAIN ino2inode
              \/ /\ ~Dangling(parent)
                 /\ lookup_children(Deref(parent), name).k = "none"
           /\ PinUnlink(parent, name))
          => UNCHANGED <<json, mem, ino2inode, file, alive>>]_vars

\* C21: write-through: when a write, create, mkdir or unlink request has
\* been answered ok, the document in the backing file is the in-memory tree
C21_WriteThrough ==
    (alive /\ last.op \in {"write", "create", "mkdir", "unlink"} /\ last.res = "ok")
        => file = Document(json)

\* C22: a flush is atomic under a crash or an interruption: in every step
\* the backing file stays the complete document it held or becomes the
\* complete document of the tree, and is never empty or partly written
C22_FlushAtomic ==
    [][file' \in {file, Document(json')}]_vars

\* C23: when the file write of a flush fails, the filesystem lives on to
\* serve later requests and its tree and registry are as they were
C23_FlushFailureSurfaced ==
    [][FlushIoError => (alive' /\ UNCHANGED <<json, mem, inodes, last_inode, ino2inode>>)]_vars

\* C25: no request with a structural or address error aborts the process
\* (with a backing file that can be written, the requests of Spec and PinSpec
\* fail in no other way): the filesystem is alive after every request
C25_ErrorsNeverAbort == alive

\* C26: lookup(parent, name) of a name that does not resolve to a child of
\* parent (a key the Object lacks, an index the Array lacks or a name that
\* is no index, a scalar parent) is answered with the error ENOENT and
\* changes neither the tree nor the registry: no id is minted.  The
\* pointer-based lookup changes no state, its answer is a function of it.
C26_FailedLookupChangesNothing ==
    /\ [](variant = "pin" =>
            \A parent \in DOMAIN ino2inode, name \in PinNames :
                (~Dangling(parent) /\ lookup_children(Deref(parent), name).k = "none")
                => /\ PinLookupReply(parent, name).res = "ENOENT"
                   /\ PinLookupReply(parent, name).rino = 0)
    /\ [][(/\ variant = "path" /\ last'.op = "lookup"
           /\ last'.ino \in DOMAIN inodes
           /\ get_json_at_path(json, inodes[last'.ino] \o <<last'.name>>).k = "none")
          => /\ last'.res = "ENOENT" /\ last'.rino = 0
             /\ alive'
             /\ UNCHANGED <<json, inodes, last_inode, file>>]_vars

\* lookup(root, "0"), a key the root Object lacks, was answered ENOENT with
\* the registry still holding the root alone
C26_LookupFailed ==
    /\ variant = "path" /\ alive
    /\ last.op = "lookup" /\ last.res = "ENOENT"
    /\ last.ino = FUSE_ROOT_ID /\ last.name = "0"
    /\ get_json_at_path(json, <<"0">>).k = "none"
    /\ DOMAIN inodes = {FUSE_ROOT_ID} /\ last_inode = FUSE_ROOT_ID

\* C27: create or mkdir under a parent id that is not live (never issued,
\* or the id of a node that is gone) or whose node is a scalar is refused:
\* the process lives on and the tree and the registry are as they were
C27_BadParentRefused ==
    [][\A parent \in PinInos, name \in PinNames :
          (/\ variant = "pin"
           /\ IF parent \notin DOMAIN ino2inode THEN TRUE
              ELSE IF Dangling(parent) THEN TRUE
              ELSE Deref(parent).k \notin {"obj", "arr"}
           /\ PinCreate(parent, name) \/ PinMkdir(parent, name))
          => alive' /\ UNCHANGED <<json, mem, ino2inode>>]_vars

\* C28: the kind reported for a node is Directory exactly when the node is
\* an Object or an Array: the kind readdir gives for a child is the kind of
\* the child's node, which is the kind getattr reports for the child's id
C28_ReaddirKindIsGetattrKind ==
    (variant = "path" /\ alive /\ last.op = "readdir" /\ last.res = "ok")
        => \A i \in 1..Len(last.entries) :
              LET e == last.entries[i]
              IN  e.name \notin {".", ".."}
                  => /\ GetattrReply(e.ino).res = "ok"
                     /\ GetattrReply(e.ino).kind = e.kind

\* C29: read(id, offset, length) of a scalar node of any kind, at an offset
\* within its canonical rendering R, replies with exactly the bytes of R
\* from offset up to min(offset + length, len(R))
C29_ReadSlicesRendering ==
    variant = "pin" =>
        \A ino \in DOMAIN ino2inode, offset \in Offsets, size \in Sizes :
            (/\ ~Dangling(ino)
             /\ Deref(ino).k \in {"null", "bool", "num", "str"}
             /\ offset <= Len(Content(Deref(ino))))
            => /\ PinReadReply(ino, offset, size).res = "ok"
               /\ PinReadReply(ino, offset, size).data =
                     SubSeq(Content(Deref(ino)), offset + 1,
                            Min(offset + size, Len(Content(Deref(ino)))))

\* C30: readdir(id, 0) of a container replies with the entries "." and ".."
\* followed by exactly one entry per child, Array elements in index order
\* and Object keys in the one order of their names
C30_ReaddirDotsThenChildren ==
    variant = "pin" =>
        \A ino \in DOMAIN ino2inode :
            (~Dangling(ino) /\ Deref(ino).k \in {"obj", "arr"})
            => LET entries == PinReaddirReply(ino, 0).entries
                   names == ChildNames(Deref(ino))
               IN  /\ PinReaddirReply(ino, 0).res = "ok"
                   /\ Len(entries) = 2 + Len(names)
                   /\ entries[1].name = "." /\ entries[2].name = ".."
                   /\ \A i \in 1..Len(names) : entries[i + 2].name = names[i]

\* C31: lookup, getattr and read are idempotent: a lookup repeated with the
\* same arguments right after the first (no mutation in between) gets the
\* reply of the first, and leaves the tree and the registry as the first
\* call left them.  (getattr and read reply with a function of the state
\* and change nothing.)
C31_RepeatedLookupSameReply ==
    [][(/\ variant = "path" /\ alive'
        /\ last.op = "lookup" /\ last.res = "ok"
        /\ last'.op = "lookup"
        /\ last'.ino = last.ino /\ last'.name = last.name)
       => /\ last' = last
          /\ UNCHANGED <<json, inodes, last_inode>>]_vars

\* C32: every flush serializes the tree as a completed request left it: when
\* the last request served is one that flushes (unlink and flush in the
\* pointer-based filesystem, write and flush in the path-based one), the
\* backing file holds the document of the tree that request ended with, not
\* a tree from before or from the middle of its mutation
C32_FlushSeesCompletedMutation ==
    (/\ alive /\ last.res = "ok"
     /\ \/ variant = "pin" /\ last.op \in {"unlink", "flush"}
        \/ variant = "path" /\ last.op \in {"write", "flush"})
    => file = Document(json)

\* a path-based write has replaced the Array b by a String and flushed
C32_WriteFlushed ==
    /\ variant = "path" /\ alive
    /\ last.op = "write" /\ last.res = "ok"
    /\ json # InitDoc
    /\ get_json_at_path(json, <<"b">>) = VStr(<<"h">>)
    /\ file = Document(json)

\* C33: after unlink removes a key from an Object, every id that was live
\* for a sibling key of that Object is still live and still translates to
\* the same sibling node, which holds the value it held (the step is the one
\* that answers the unlink: its reply names parent and name, which the
\* parent had)
C33_UnlinkKeepsSiblingIds ==
    [][(/\ variant = "pin" /\ last'.op = "unlink" /\ steps' = steps + 1
        /\ last'.ino \in DOMAIN ino2inode /\ ~Dangling(last'.ino)
        /\ Deref(last'.ino).k = "obj"
        /\ last'.name \in DOMAIN Deref(last'.ino).m)
       => \A n \in DOMAIN Deref(last'.ino).m \ {last'.name} :
             LET id == ChildAddr(Deref(last'.ino), n)
                 sibling == NodePath(last'.ino) \o <<n>>
             IN  id \in DOMAIN ino2inode
                 => /\ id \in DOMAIN ino2inode'
                    /\ PointsTo(mem', ino2inode'[id]) = {sibling}
                    /\ get_json_at_path(json', sibling) = Deref(last'.ino).m[n]]_vars

\* C34: a write through an id whose path no longer resolves to a node (an
\* ancestor is a scalar now, or is gone) fails as a stale handle: it is not
\* answered ok, the filesystem lives on, and no node of the tree (no
\* ancestor on the path in particular) is modified
C34_StaleWriteChangesNothing ==
    [][(/\ variant = "path" /\ last'.op = "write"
        /\ last'.ino \in DOMAIN inodes
        /\ get_json_at_path(json, inodes[last'.ino]).k = "none")
       => /\ last'.res # "ok"
          /\ alive'
          /\ json' = json]_vars

\* C35: every admitted request runs to completion and is answered with one
\* reply, a result or an error: the reply of the last request that changed
\* the state is a result or an error code, never the end of the process in
\* the middle of the handler
C35_EveryRequestReplied == last.res \in {"ok", "ENOENT", "ENOSYS", "EINVAL", "EIO"}

\* C36: write never turns a directory into a file: after a write to an id
\* whose node is an Object or an Array, the node at that place is still a
\* container of that kind and has the children it had
C36_WriteKeepsDirectory ==
    [][/\ (/\ variant = "path" /\ last'.op = "write"
           /\ last'.ino \in DOMAIN inodes
           /\ get_json_at_path(json, inodes[last'.ino]).k \in {"obj", "arr"})
          => LET old == get_json_at_path(json, inodes[last'.ino])
                 new == get_json_at_path(json', inodes[last'.ino])
             IN  new.k = old.k /\ ChildNames(new) = ChildNames(old)
       /\ (/\ variant = "pin" /\ last'.op = "write" /\ steps' = steps + 1
           /\ last'.ino \in DOMAIN ino2inode /\ ~Dangling(last'.ino)
           /\ Deref(last'.ino).k \in {"obj", "arr"})
          => LET old == Deref(last'.ino)
                 new == get_json_at_path(json', NodePath(last'.ino))
             IN  new.k = old.k /\ ChildNames(new) = ChildNames(old)]_vars

\* C37: for every scalar node (Null, Bool, Number, String) the size that
\* getattr and lookup report equals the number of bytes read(id, 0, length)
\* returns when length is at least that size
C37_SizeIsReadLength ==
    variant = "pin" =>
        \A ino \in DOMAIN ino2inode, size \in Sizes :
            (/\ ~Dangling(ino)
             /\ Deref(ino).k \in {"null", "bool", "num", "str"}
             /\ size >= AttrSize(Deref(ino)))
            => /\ PinReadReply(ino, 0, size).res = "ok"
               /\ Len(PinReadReply(ino, 0, size).data) = AttrSize(Deref(ino))

\* C38: readdir is resumable: each entry comes with a next-offset, and a
\* directory read in chunks (each request resuming at the next-offset of the
\* last entry of the chunk before, nothing changing in between) yields every
\* entry exactly once, in order, none skipped or repeated, whatever the size
\* of the buffer, as long as every entry fits into an empty buffer
C38_ReaddirResumable ==
    variant = "pin" =>
        \A ino \in DOMAIN ino2inode, size \in BufSizes :
            (/\ ~Dangling(ino) /\ Deref(ino).k \in {"obj", "arr"}
             /\ \A i \in 1..Len(ChildNames(Deref(ino))) :
                   EntSize(ChildNames(Deref(ino))[i]) <= size)
            => ReadDirectory(ino, 0, size) = PinDirents(Deref(ino))

\* C39: in the path-based registry, in every reachable state the root id is
\* bound and every bound id is at most last_inode; in every step last_inode
\* does not decrease, every binding keeps its path, and an id bound by the
\* step is one above the old last_inode, so one that was never bound before
C39_RegistryGrowsMonotonically ==
    /\ [](variant = "path" =>
            /\ FUSE_ROOT_ID \in DOMAIN inodes
            /\ \A i \in DOMAIN inodes : i <= last_inode)
    /\ [][variant = "path" =>
            /\ last_inode' >= last_inode
            /\ \A i \in DOMAIN inodes : i \in DOMAIN inodes' /\ inodes'[i] = inodes[i]
            /\ \A i \in DOMAIN inodes' \ DOMAIN inodes :
                  i > last_inode /\ i <= last_inode']_vars

\* two lookups have bound the ids 2 and 3 after the root
C39_TwoAllocated ==
    /\ variant = "path" /\ alive
    /\ last.op = "lookup" /\ last.res = "ok" /\ last.rino = 3
    /\ DOMAIN inodes = {1, 2, 3} /\ inodes[FUSE_ROOT_ID] = <<>>
    /\ last_inode = 3

=============================================================================
